---- MODULE Spec2Model ----
(***************************************************************************)
(* A model of the Bloom filter of src/src/lib.rs: the sizing functions,    *)
(* the BitVec buffer, the two constructors, add, may_contain and the       *)
(* accessors.                                                              *)
(*                                                                         *)
(* f32 values are modelled by a small algebra: a class ("nan", "inf",      *)
(* "ninf", "big", "frac", "fin") and, for "fin", the value in fixed point  *)
(* (units of 1/Scale).  "big" is a finite positive value at or beyond the  *)
(* range of usize; "frac" is a value strictly between 0 and 1 whose digits *)
(* are not tracked.  The sign of zero is not tracked (no operation of the  *)
(* program distinguishes -0.0 from 0.0).  A cast `as usize` of a float     *)
(* truncates and saturates, and NaN casts to 0, as the language defines    *)
(* it.  BitVec and RandomState are the bit_vec crate's and std's: they are *)
(* modelled by what their documentation and code say they do.              *)
(***************************************************************************)
EXTENDS Integers, Sequences, FiniteSets

VARIABLES
    status,   \* "none": not constructed; "built"; "failed": the constructor
              \* panicked or aborted; "panicked": add or may_contain panicked
    buffer,   \* BloomFilter.buffer: [bits: Seq(BOOLEAN), blocks: Nat]
    size,     \* BloomFilter.size
    hashers,  \* BloomFilter.hashers: the key of each RandomState, in order
    op,       \* the last call: [name, ...arguments]
    ret,      \* what the last call returned
    ctor,     \* history: the constructor call that made the filter
    added,    \* history: the elements passed to add so far
    calls,    \* history: the number of calls to add so far
    answers   \* history: the <<e, result>> of the may_contain calls since
              \* the last add

vars == <<status, buffer, size, hashers, op, ret, ctor, added, calls, answers>>

----------------------------------------------------------------------------
(* Bounds of the model *)

MaxSize == 3        \* new_with_size: size argument in 0..MaxSize
MaxElems == 2       \* constructors: n_elems argument in 0..MaxElems
MaxAdds == 2        \* at most this many calls to add
MaxKey == 1         \* the first RandomState's key is in 0..MaxKey
MaxElem == 2        \* the elements hashed are 0..MaxElem
DigestSpace == 97   \* digests are in 0..DigestSpace-1 (u64 in the program)

Elems == 0 .. MaxElem

----------------------------------------------------------------------------
(* f32 *)

Scale == 10000      \* a "fin" value v stands for the f32 v / Scale
Ln2 == 6931         \* 2f32.ln() = 0.6931472
Ln2Sq == 4805       \* 2f32.ln().powf(2.) = 0.480453
BlockBits == 32     \* BitVec<u32>: bits per storage block
USIZE_MAX == 2147483647  \* stands for usize::MAX (the largest integer TLC holds)

Fin(v) == [cls |-> "fin", v |-> v]
Cls(c) == [cls |-> c, v |-> 0]
IsZero(x) == x.cls = "fin" /\ x.v = 0

\* `n as f32`
FromUsize(n) == IF n = USIZE_MAX THEN Cls("big") ELSE Fin(n * Scale)

\* `x as usize`: truncates toward zero, saturates, NaN -> 0
AsUsize(x) ==
    CASE x.cls = "nan" -> 0
      [] x.cls = "ninf" -> 0
      [] x.cls = "frac" -> 0
      [] x.cls \in {"inf", "big"} -> USIZE_MAX
      [] OTHER -> IF x.v < 0 THEN 0 ELSE x.v \div Scale

\* f32::ceil
FCeil(x) ==
    CASE x.cls = "frac" -> Fin(Scale)
      [] x.cls = "fin" -> Fin(((x.v + Scale - 1) \div Scale) * Scale)
      [] OTHER -> x

\* -x
FNeg(x) ==
    CASE x.cls = "fin" -> Fin(0 - x.v)
      [] x.cls = "inf" -> Cls("ninf")
      [] x.cls = "ninf" -> Cls("inf")
      [] OTHER -> x

\* x * y ("big" is only ever multiplied by a finite value >= 0)
FMul(x, y) ==
    CASE x.cls = "nan" \/ y.cls = "nan" -> Cls("nan")
      [] x.cls \in {"inf", "ninf"} \/ y.cls \in {"inf", "ninf"} ->
            IF IsZero(x) \/ IsZero(y) THEN Cls("nan")
            ELSE IF (x.cls = "ninf" \/ (x.cls = "fin" /\ x.v < 0))
                    = (y.cls = "ninf" \/ (y.cls = "fin" /\ y.v < 0))
                 THEN Cls("inf") ELSE Cls("ninf")
      [] x.cls = "big" /\ y.cls = "fin" /\ y.v >= 0 ->
            IF y.v = 0 THEN Fin(0) ELSE Cls("big")
      [] x.cls = "fin" /\ y.cls = "fin" -> Fin((x.v * y.v) \div Scale)

\* x / y, for y a finite value >= 0
FDiv(x, y) ==
    CASE x.cls = "nan" -> Cls("nan")
      [] x.cls \in {"inf", "ninf"} -> x
      [] x.cls = "big" -> IF y.v = 0 THEN Cls("inf") ELSE Cls("big")
      [] OTHER ->
            IF y.v = 0
            THEN (IF x.v = 0 THEN Cls("nan")
                  ELSE IF x.v > 0 THEN Cls("inf") ELSE Cls("ninf"))
            ELSE Fin((x.v * Scale) \div y.v)

\* f32::ln, on the rates the model draws (FpRates)
FLn(x) ==
    CASE x.cls = "fin" /\ x.v < 0 -> Cls("nan")
      [] x.cls = "fin" /\ x.v = 0 -> Cls("ninf")
      [] x.cls = "fin" /\ x.v = 1000 -> Fin(-23026)
      [] x.cls = "fin" /\ x.v = 5000 -> Fin(-6931)
      [] x.cls = "fin" /\ x.v = 10000 -> Fin(0)
      [] x.cls = "fin" /\ x.v = 15000 -> Fin(4055)

\* f32::exp, for an argument <= 0 (the program's argument is -(k*n)/m)
FExp(x) ==
    CASE x.cls = "nan" -> Cls("nan")
      [] x.cls = "ninf" -> Fin(0)
      [] x.cls = "fin" /\ x.v = 0 -> Fin(Scale)
      [] x.cls = "fin" /\ x.v < 0 -> Cls("frac")

\* 1. - x
FOneMinus(x) ==
    CASE x.cls = "fin" -> Fin(Scale - x.v)
      [] x.cls = "inf" -> Cls("ninf")
      [] x.cls = "ninf" -> Cls("inf")
      [] OTHER -> x

\* f32::powf(x, k) for an exponent k >= 0 and a base in [0, 1] or NaN:
\* pow(x, 0) is 1 for every x, NaN included
FPowf(x, k) ==
    CASE IsZero(k) -> Fin(Scale)
      [] x.cls = "nan" -> Cls("nan")
      [] x.cls = "frac" -> Cls("frac")
      [] x.cls = "fin" /\ x.v = 0 -> Fin(0)
      [] x.cls = "fin" /\ x.v = Scale -> Fin(Scale)

----------------------------------------------------------------------------
(* Sizing functions *)

false_positive_rate(n_buckets, n_hashers, n_elems) ==
    LET k == FromUsize(n_hashers)
        n == FromUsize(n_elems)
        m == FromUsize(n_buckets)
    IN  FPowf(FOneMinus(FExp(FDiv(FMul(FNeg(k), n), m))), k)

min_n_buckets(n_elems, fp_rate) ==
    LET n == FromUsize(n_elems)
    IN  AsUsize(FCeil(FDiv(FMul(FMul(Fin(0 - Scale), n), FLn(fp_rate)),
                           Fin(Ln2Sq))))

optimal_n_hashers_floor(n_buckets, n_elems) ==
    LET n == FromUsize(n_elems)
        m == FromUsize(n_buckets)
    IN  AsUsize(FMul(FDiv(m, n), Fin(Ln2)))

optimal_n_hashers(n_buckets, n_elems) ==
    LET n == FromUsize(n_elems)
        m == FromUsize(n_buckets)
    IN  AsUsize(FCeil(FMul(FDiv(m, n), Fin(Ln2))))

----------------------------------------------------------------------------
(* BitVec<u32> (crate bit_vec): nbits flags stored in blocks of BlockBits *)

blocks_for_bits(nbits) ==
    IF nbits % BlockBits = 0 THEN nbits \div BlockBits
    ELSE nbits \div BlockBits + 1

\* BitVec::from_elem(nbits, false)
BitVecFromElem(nbits) ==
    [bits |-> [i \in 1 .. nbits |-> FALSE], blocks |-> blocks_for_bits(nbits)]

\* BitVec::len
BitVecLen(bv) == Len(bv.bits)

\* BitVec::capacity: the bits the allocated storage can hold
BitVecCapacity(bv) == bv.blocks * BlockBits

\* BitVec::get(i): Some(bit) inside the vector, None outside
BitVecGet(bv, i) ==
    IF i < BitVecLen(bv) THEN [some |-> TRUE, bit |-> bv.bits[i + 1]]
    ELSE [some |-> FALSE, bit |-> FALSE]

BitVecSet_Toggle(bv, i, x) ==
    [bv EXCEPT !.bits[i + 1] = (x /\ ~bv.bits[i + 1])]

\* BitVec::set(i, x), for i < len (the caller models the assertion failure)
BitVecSet(bv, i, x) ==
    [bv EXCEPT !.bits[i + 1] = x]

----------------------------------------------------------------------------
(* Hashing *)

\* What a hasher built from the RandomState with key `key` returns from
\* finish() after e.hash(): a fixed function of the key and the element.
Digest(key, e) ==
    ((key + 1) * (e + 2) * 7 + key * 3 + e * e * 5) % DigestSpace

\* (0..n_hashers).map(|_| RandomState::new()).collect(): the keys of one
\* thread's RandomStates are consecutive, starting from the thread's random
\* first key
NewHashers(n_hashers, key) == [i \in 1 .. n_hashers |-> key + i - 1]

\* The memory the process can allocate, in elements: a request for
\* USIZE_MAX bits or RandomStates fails (capacity overflow, or the allocator
\* refuses)
CanAllocate(n) == n < USIZE_MAX

----------------------------------------------------------------------------
(* BloomFilter *)

FpRates == {Fin(0), Fin(1000), Fin(5000), Fin(10000), Fin(15000)}

\* The struct literal of both constructors, or the failure of its allocations
Construct(nbits, nh, call) ==
    /\ op' = call
    /\ ctor' = call
    /\ ret' = "()"
    /\ UNCHANGED <<size, added, calls, answers>>
    /\ IF CanAllocate(nbits) /\ CanAllocate(nh)
       THEN /\ status' = "built"
            /\ buffer' = BitVecFromElem(nbits)
            /\ \E key \in 0 .. MaxKey : hashers' = NewHashers(nh, key)
       ELSE /\ status' = "failed"
            /\ UNCHANGED <<buffer, hashers>>

NewWithFp(n_elems, rate) ==
    /\ status = "none"
    /\ LET min_buckets == min_n_buckets(n_elems, rate)
           nh == optimal_n_hashers(min_buckets, n_elems)
       IN  Construct(min_buckets, nh,
                     [name |-> "new_with_fp", n_elems |-> n_elems,
                      fp_rate |-> rate])

NewWithSize(n_elems, sz) ==
    /\ status = "none"
    /\ LET nh == optimal_n_hashers(sz, n_elems)
       IN  Construct(sz, nh,
                     [name |-> "new_with_size", n_elems |-> n_elems,
                      size |-> sz])

indexes_ModCapacity(e) ==
    [i \in 1 .. Len(hashers) |->
        Digest(hashers[i], e) % BitVecCapacity(buffer)]

\* The indexes that an element hashes to (for a buffer of length >= 1)
indexes(e) ==
    [i \in 1 .. Len(hashers) |-> Digest(hashers[i], e) % BitVecLen(buffer)]

\* `% self.buffer.len()` with an empty buffer: division by zero
IndexesPanics == Len(hashers) >= 1 /\ BitVecLen(buffer) = 0

SetAll_FirstOnly(bv, idxs) ==
    IF idxs = <<>> THEN [bv |-> bv, ok |-> TRUE]
    ELSE IF Head(idxs) >= BitVecLen(bv) THEN [bv |-> bv, ok |-> FALSE]
    ELSE [bv |-> BitVecSet(bv, Head(idxs), TRUE), ok |-> TRUE]

\* The loop of add: set(idx, true) for each index in order; set panics on
\* an index outside the vector, leaving the earlier bits set
RECURSIVE SetAll(_, _)
SetAll(bv, idxs) ==
    IF idxs = <<>> THEN [bv |-> bv, ok |-> TRUE]
    ELSE IF Head(idxs) >= BitVecLen(bv) THEN [bv |-> bv, ok |-> FALSE]
    ELSE SetAll(BitVecSet(bv, Head(idxs), TRUE), Tail(idxs))

\* The loop of may_contain: may_contain &= get(idx).unwrap(); unwrap panics
\* on None
RECURSIVE GetAll(_, _, _)
GetAll(bv, idxs, acc) ==
    IF idxs = <<>> THEN [val |-> acc, ok |-> TRUE]
    ELSE LET g == BitVecGet(bv, Head(idxs))
         IN  IF ~g.some THEN [val |-> acc, ok |-> FALSE]
             ELSE GetAll(bv, Tail(idxs), acc /\ g.bit)

IncSize_IfNew(s, e) == IF e \in added THEN s ELSE s + 1

\* self.size += 1
IncSize(s, e) == s + 1

Add(e) ==
    /\ status = "built"
    /\ calls < MaxAdds
    /\ op' = [name |-> "add", e |-> e]
    /\ ret' = "()"
    /\ added' = added \cup {e}
    /\ calls' = calls + 1
    /\ answers' = {}
    /\ UNCHANGED <<hashers, ctor>>
    /\ IF IndexesPanics
       THEN /\ status' = "panicked"
            /\ UNCHANGED <<buffer, size>>
       ELSE LET r == SetAll(buffer, indexes(e))
            IN  /\ buffer' = r.bv
                /\ status' = IF r.ok THEN "built" ELSE "panicked"
                /\ size' = IF r.ok THEN IncSize(size, e) ELSE size

MayContain_Counting(e) ==
    /\ status = "built"
    /\ ~IndexesPanics
    /\ op' = [name |-> "may_contain", e |-> e]
    /\ ret' = GetAll(buffer, indexes(e), TRUE).val
    /\ answers' = answers \cup {<<e, ret'>>}
    /\ size' = size + 1
    /\ UNCHANGED <<status, buffer, hashers, ctor, added, calls>>

MayContain(e) ==
    /\ status = "built"
    /\ op' = [name |-> "may_contain", e |-> e]
    /\ UNCHANGED <<buffer, size, hashers, ctor, added, calls>>
    /\ IF IndexesPanics
       THEN /\ status' = "panicked"
            /\ ret' = "()"
            /\ UNCHANGED answers
       ELSE LET r == GetAll(buffer, indexes(e), TRUE)
            IN  /\ status' = IF r.ok THEN "built" ELSE "panicked"
                /\ ret' = IF r.ok THEN r.val ELSE "()"
                /\ answers' = IF r.ok THEN answers \cup {<<e, r.val>>}
                              ELSE answers

\* Number of buckets that a member can occupy
buckets == BitVecCapacity(buffer)

\* Number of hashers being used
n_hashers == Len(hashers)

\* False positive rate
fp_rate == false_positive_rate(buckets, n_hashers, size)

Accessor(name, value) ==
    /\ status = "built"
    /\ op' = [name |-> name]
    /\ ret' = value
    /\ UNCHANGED <<status, buffer, size, hashers, ctor, added, calls, answers>>

Size == Accessor("size", size)
Buckets == Accessor("buckets", buckets)
NHashers == Accessor("n_hashers", n_hashers)
FpRate == Accessor("fp_rate", fp_rate)

----------------------------------------------------------------------------

Init ==
    /\ status = "none"
    /\ buffer = [bits |-> <<>>, blocks |-> 0]
    /\ size = 0
    /\ hashers = <<>>
    /\ op = [name |-> "none"]
    /\ ret = "()"
    /\ ctor = [name |-> "none"]
    /\ added = {}
    /\ calls = 0
    /\ answers = {}

Next ==
    \/ \E n \in 0 .. MaxElems, rate \in FpRates : NewWithFp(n, rate)
    \/ \E n \in 0 .. MaxElems, sz \in 0 .. MaxSize : NewWithSize(n, sz)
    \/ \E e \in Elems : Add(e)
    \/ \E e \in Elems : MayContain(e)
    \/ Size
    \/ Buckets
    \/ NHashers
    \/ FpRate

Spec == Init /\ [][Next]_vars

----------------------------------------------------------------------------
(* Properties *)

Bits == buffer.bits
Fresh == status = "built" /\ calls = 0

\* Every position of e's index sequence is set in the bit array
AllSet(e) ==
    \A i \in 1 .. n_hashers : Bits[(Digest(hashers[i], e) % Len(Bits)) + 1]

\* The ceiling and the truncation of (m/n) * ln 2, on the integers, n >= 1
HashCountCeil(m, n) == (m * Ln2 + n * Scale - 1) \div (n * Scale)
HashCountFloor(m, n) == (m * Ln2) \div (n * Scale)

\* C1: no false negatives: once add(e) has been called, every position of
\* e's index sequence is set in every later state, and every later call
\* may_contain(e) returns true.
C1_NoFalseNegatives ==
    status = "built" =>
        /\ \A e \in added : AllSet(e)
        /\ (op.name = "may_contain" /\ op.e \in added) => ret = TRUE

C1_Witness ==
    /\ status = "built"
    /\ op.name = "may_contain" /\ op.e \in added
    /\ Cardinality(added) >= 2
    /\ n_hashers >= 2
    /\ \E i \in 1 .. Len(Bits) : ~Bits[i]

\* C2: size tracking: size() is 0 on a fresh filter and equals the number
\* of calls to add made so far, whatever the elements and whatever queries
\* were made in between.
C2_SizeTracking ==
    /\ status = "built" => size = calls
    /\ Fresh => size = 0
    /\ (status = "built" /\ op.name = "size") => ret = calls

C2_Witness ==
    /\ status = "built"
    /\ op.name = "size"
    /\ calls >= 2
    /\ Cardinality(added) = 1

\* C3: a call to may_contain changes neither the bit array, nor the element
\* count, nor the hash functions, and it returns what every call for the
\* same element has returned since the last add.
C3_QueryDeterminism ==
    [][(status = "built" /\ op'.name = "may_contain") =>
          /\ UNCHANGED <<buffer, size, hashers>>
          /\ \A a \in answers : a[1] = op'.e => ret' = a[2]]_vars

C3_Witness ==
    /\ status = "built"
    /\ op.name = "may_contain"
    /\ calls >= 1
    /\ \E a, b \in answers : a[2] /\ ~b[2]

\* C8: add(e) sets exactly the positions of e's index sequence and leaves
\* every other bit, the length of the bit array and the hash functions
\* unchanged; no step ever resets a bit.
C8_AddWritesExactlyIndexes ==
    [][status = "built" =>
          /\ Len(Bits') = Len(Bits)
          /\ \A i \in 1 .. Len(Bits) : Bits[i] => Bits'[i]
          /\ (op'.name = "add" /\ status' = "built") =>
                /\ buffer'.blocks = buffer.blocks
                /\ hashers' = hashers
                /\ \A i \in 1 .. Len(Bits) :
                      Bits'[i] = (Bits[i] \/
                                  \E j \in 1 .. n_hashers :
                                      Digest(hashers[j], op'.e) % Len(Bits)
                                          = i - 1)]_vars

C8_Witness ==
    /\ status = "built"
    /\ op.name = "add"
    /\ calls >= 2
    /\ \E i, j \in 1 .. Len(Bits) : Bits[i] /\ ~Bits[j]

\* C9: on a filter with at least one bucket and one hash function, the
\* index sequence of every element has one position per hash function, in
\* the order of the hash functions, each inside the bit array, so neither
\* add nor may_contain fails.
C9_IndexesInRange ==
    /\ status # "panicked"
    /\ (status = "built" /\ BitVecLen(buffer) >= 1 /\ n_hashers >= 1) =>
          \A e \in Elems :
              LET idxs == indexes(e)
              IN  /\ DOMAIN idxs = 1 .. n_hashers
                  /\ \A i \in 1 .. n_hashers :
                        /\ idxs[i] \in 0 .. BitVecLen(buffer) - 1
                        /\ idxs[i] = Digest(hashers[i], e) % BitVecLen(buffer)
                  /\ SetAll(buffer, idxs).ok
                  /\ GetAll(buffer, idxs, TRUE).ok

C9_Witness ==
    /\ status = "built"
    /\ BitVecLen(buffer) >= 2 /\ n_hashers >= 2
    /\ op.name \in {"add", "may_contain"}
    /\ calls >= 1
    /\ indexes(op.e)[1] # indexes(op.e)[2]

\* C7 (as stated): new_with_fp takes the ceiling of (m/n) * ln 2 for the
\* number of hash functions and new_with_size takes its truncation.
C7_CeilingAndTruncation ==
    (status = "built" /\ ctor.n_elems >= 1) =>
        /\ ctor.name = "new_with_fp" =>
              n_hashers = HashCountCeil(BitVecLen(buffer), ctor.n_elems)
        /\ ctor.name = "new_with_size" =>
              n_hashers = HashCountFloor(BitVecLen(buffer), ctor.n_elems)

\* C7 (amended): both constructors take the ceiling of (m/n) * ln 2 for
\* the number of hash functions.
C7_BothCeiling ==
    (status = "built" /\ ctor.n_elems >= 1) =>
        n_hashers = HashCountCeil(BitVecLen(buffer), ctor.n_elems)

C7_Witness ==
    /\ status = "built"
    /\ ctor.name = "new_with_size"
    /\ ctor.n_elems >= 2 /\ ctor.size >= 2
    /\ n_hashers = HashCountFloor(ctor.size, ctor.n_elems) + 1

\* The sizing parameters a constructor call must have
ValidParams(c) ==
    /\ c.n_elems >= 1
    /\ c.name = "new_with_fp" => (c.fp_rate.v > 0 /\ c.fp_rate.v < Scale)
    /\ c.name = "new_with_size" => c.size >= 1

\* C4: a constructor call with zero expected elements, a rate outside
\* (0,1) or a zero bucket count yields no filter, so every filter has at
\* least one bucket and one hash function.
C4_InvalidParamsRejected ==
    status = "built" =>
        /\ ValidParams(ctor)
        /\ BitVecLen(buffer) >= 1
        /\ n_hashers >= 1

\* C5: buckets() returns the length of the bit array: the size argument of
\* new_with_size or the minimum bucket count of new_with_fp, the modulus of
\* indexes.
C5_BucketsIsLength ==
    status = "built" =>
        /\ buckets = BitVecLen(buffer)
        /\ ctor.name = "new_with_size" => buckets = ctor.size
        /\ ctor.name = "new_with_fp" =>
              buckets = min_n_buckets(ctor.n_elems, ctor.fp_rate)
        /\ op.name = "buckets" => ret = BitVecLen(buffer)

\* C6: on every constructed filter, before any add, fp_rate() is exactly 0.0.
C6_EmptyRateIsZero ==
    (status = "built" /\ size = 0) =>
        /\ IsZero(fp_rate)
        /\ op.name = "fp_rate" => IsZero(ret)

\* C10: may_contain(e) returns true exactly when every position of e's
\* index sequence is set; on a fresh filter it returns false for every
\* element.
C10_QueryResult ==
    status = "built" =>
        /\ op.name = "may_contain" => ret = AllSet(op.e)
        /\ Fresh => \A e \in Elems : ~GetAll(buffer, indexes(e), TRUE).val
        /\ (Fresh /\ op.name = "may_contain") => ret = FALSE

====
